---- MODULE Spec2Model ----
(***************************************************************************)
(* Model of orcaslicer_tool_shutdown.py: ToolShutdownProcessor.            *)
(*                                                                         *)
(* A G-code file is a sequence of lines.  A line is a record               *)
(*   k   : its kind ("M82", "M83", "G92", "T", "G1", "G1E", "standby",     *)
(*         "shutdown", "comment", "blank", "thumb")                        *)
(*   t   : the tool number the line names (NoTool if none)                 *)
(*   e   : the value of its E parameter, in units of 1e-6                  *)
(*   lay : 0 no layer comment, 1 a comment matching ';layer'               *)
(*         (case-insensitive) but not ';LAYER:0', 2 the comment ';LAYER:0' *)
(*   ins : TRUE for a line put in by the running processor (provenance;    *)
(*         it is not text and is lost when the file is written)            *)
(* Line numbers are 0-based as in the code: line number n is lines[n+1].   *)
(***************************************************************************)
EXTENDS Integers, Sequences, FiniteSets, TLC

\* ---------------------------------------------------------------- bounds
\* Longest file of the analysis family (any line kind the analyzer reads).
MaxLenAn == 3
\* Longest body of the insertion family (an M83 header, then the body).
MaxBody == 5
\* Longest body of the files on which a run or an analysis is repeated.
MaxRerunBody == 2
\* Longest file of the family whose reads and writes may fail.
MaxLenIO == 2
\* Runs of the script on one file.
MaxRuns == 2
\* Calls of analyze_tool_usage on one processor object.
MaxPasses == 2

\* ------------------------------------------------------------- constants
\* None: no previous tool, no tool on a line, no standby found
NoTool == -1
\* the tolerance 1e-6, in units of 1e-6
Tol == 1
\* the tool numbers of the modelled printer; 1 is a decimal prefix of 10
ToolIds == {0, 1, 10}
\* self.config
shutdown_heater == TRUE
shutdown_fan == FALSE
add_comments == TRUE
create_backup == TRUE
generate_report_flag == TRUE

Ln(k, t, e, lay) == [k |-> k, t |-> t, e |-> e, lay |-> lay, ins |-> FALSE]
Inserted(l) == [l EXCEPT !.ins = TRUE]
\* What a line is once written to and read back from a file: its text.
AsText(l) == [l EXCEPT !.ins = FALSE]
TextOf(s) == [i \in 1..Len(s) |-> AsText(s[i])]

\* -------------------------------------------------------------- helpers
Max(S) == CHOOSE x \in S : \A y \in S : y <= x

RECURSIVE Digits(_)
\* str(n): the decimal digits of n, most significant first
Digits(n) == IF n < 10 THEN <<n>> ELSE Append(Digits(n \div 10), n % 10)

IsPrefix(p, s) == Len(p) <= Len(s) /\ \A i \in 1..Len(p) : p[i] = s[i]

\* f'M104 S100 T{tool_num}' in line: a substring test, so the digits of
\* tool_num need only be a prefix of the digits that follow the T.
StandbyMatch(tool_num, l) ==
    l.k = "standby" /\ IsPrefix(Digits(tool_num), Digits(l.t))

\* ';LAYER:' in line or ';layer' in line.lower()
IsLayerMarker(l) == l.lay > 0

\* Mutant of AbsExtrudes: the tolerance is left out.
AbsExtrudesNoTol(e_value, pos) == e_value > pos

\* e_value > self.e_pos + 1e-6
AbsExtrudes(e_value, pos) == e_value > pos + Tol
\* e_value > 1e-6
RelExtrudes(e_value) == e_value > Tol

VARIABLES
    disk,           \* the content of gcode_file on disk
    bak,            \* gcode_file + '.bak': [exists, content]
    wrote,          \* the files this run opened for writing
    pc,             \* where process() is
    result,         \* what process() returned ("none" while running)
    run,            \* which run of the script on the file this is (1, 2, ...)
    runs_left,      \* the runs the user makes after this one
    passes,         \* calls of analyze_tool_usage on this processor so far
    passes_left,    \* the calls of analyze_tool_usage still to be made
    faults,         \* whether opening, reading or writing a file can fail
    dry_run,
    lines,
    tool_usage,
    tool_changes,
    current_tool,
    total_tools,
    shutdown_inserted,
    e_mode,
    e_pos,
    previous_tool,
    in_start_gcode,
    first_tool_after_start,
    line_num,       \* the next line analyze_tool_usage reads
    tools_by_last_use,  \* the part of the sorted list not yet iterated
    output_lines,
    applied,        \* history: [tool, at] of each insertion made, in order
    loaded,         \* history: the lines as load_gcode read them
    usage1,         \* history: tool_usage at the end of the first pass
    changes1,       \* history: tool_changes at the end of the first pass
    disk0,          \* history: gcode_file as it was when this run started
    bak0,           \* history: the backup file as it was when this run started
    tried           \* history: the files this run tried to open for writing

vars == <<disk, bak, wrote, pc, result, run, runs_left, passes, passes_left,
          faults, dry_run, lines, tool_usage,
          tool_changes, current_tool, total_tools, shutdown_inserted, e_mode,
          e_pos, previous_tool, in_start_gcode, first_tool_after_start,
          line_num, tools_by_last_use, output_lines, applied, loaded,
          usage1, changes1, disk0, bak0, tried>>

fsVars == <<disk, bak, wrote>>
envVars == <<run, runs_left, faults, dry_run>>
analysisVars == <<tool_usage, tool_changes, current_tool, total_tools, e_mode,
                  e_pos, previous_tool, in_start_gcode, first_tool_after_start,
                  line_num>>
insertVars == <<tools_by_last_use, output_lines, shutdown_inserted, applied>>
histVars == <<usage1, changes1, disk0, bak0, tried>>

Absent == [exists |-> FALSE, content |-> <<>>]

\* ---------------------------------------------------------------- inputs
M82 == Ln("M82", NoTool, 0, 0)
M83 == Ln("M83", NoTool, 0, 0)
G92(e) == Ln("G92", NoTool, e, 0)
TSel(t) == Ln("T", t, 0, 0)
Move == Ln("G1", NoTool, 0, 0)
MoveE(e) == Ln("G1E", NoTool, e, 0)
Standby(t) == Ln("standby", t, 0, 0)
LayerLine == Ln("comment", NoTool, 0, 1)
Layer0Line == Ln("comment", NoTool, 0, 2)
ThumbEnd == Ln("thumb", NoTool, 0, 0)

\* Lines of the analysis family.
AnLines == {M82, M83, G92(0), TSel(0), TSel(1), [TSel(1) EXCEPT !.lay = 1],
            Move, MoveE(-2), MoveE(1), MoveE(3), Standby(1), LayerLine}
\* Lines of the insertion family; its files start with M83, so that every
\* MoveE(3) extrudes.
InsLines == {MoveE(3), TSel(1), TSel(10), Standby(0), Standby(1), Standby(10)}
\* Lines of the input/output family: they decide where the report goes,
\* whether a tool is found and whether a shutdown is inserted.
IOLines == {Layer0Line, ThumbEnd, MoveE(3), Standby(0)}

SeqsUpTo(S, n) == UNION {[1..m -> S] : m \in 0..n}

AnFiles == SeqsUpTo(AnLines, MaxLenAn)
InsFiles == {<<M83>> \o b : b \in SeqsUpTo(InsLines, MaxBody)}
RerunFiles == {<<M83>> \o b : b \in SeqsUpTo(InsLines, MaxRerunBody)}
IOFiles == SeqsUpTo(IOLines, MaxLenIO)

\* __init__ (lines 48-60), and the locals of the methods before they run
Fresh ==
    /\ lines = <<>>
    /\ tool_usage = [t \in ToolIds |-> <<>>]
    /\ tool_changes = [t \in ToolIds |-> 0]
    /\ current_tool = 0
    /\ total_tools = {}
    /\ shutdown_inserted = {}
    /\ e_mode = "ABS"
    /\ e_pos = 0
    /\ previous_tool = NoTool
    /\ in_start_gcode = TRUE
    /\ first_tool_after_start = TRUE
    /\ line_num = 0
    /\ tools_by_last_use = <<>>
    /\ output_lines = <<>>
    /\ applied = <<>>
    /\ loaded = <<>>
    /\ passes = 0
    /\ usage1 = [t \in ToolIds |-> <<>>]
    /\ changes1 = [t \in ToolIds |-> 0]
    /\ disk0 = disk
    /\ bak0 = bak
    /\ tried = <<>>
    /\ wrote = {}
    /\ result = "none"
    /\ pc = "load"

\* main() lines 402-407: the file exists, a processor is constructed and
\* process() is called.  Four families of runs:
\*   analysis:  any line the analyzer reads, one run, no failure
\*   insertion: relative extrusion, three tools and their standby lines
\*   repeat:    short insertion files; the script is run again on its own
\*              output, or analyze_tool_usage is called again
\*   i/o:       --dry-run or not, and file operations that may fail
Init ==
    /\ \/ /\ disk \in AnFiles \cup InsFiles
          /\ dry_run = FALSE
          /\ runs_left = 0
          /\ passes_left = 1
          /\ faults = FALSE
       \/ /\ disk \in RerunFiles
          /\ dry_run = FALSE
          /\ runs_left = MaxRuns - 1
          /\ passes_left = MaxPasses
          /\ faults = FALSE
       \/ /\ disk \in IOFiles
          /\ dry_run \in BOOLEAN
          /\ runs_left = 0
          /\ passes_left = 1
          /\ faults = TRUE
    /\ bak = Absent
    /\ run = 1
    /\ Fresh

\* ------------------------------------------------------------ load_gcode
\* lines 79-85: readlines() succeeded
LoadOk ==
    /\ pc = "load"
    /\ lines' = disk
    /\ loaded' = disk
    /\ pc' = "loaded"
    /\ UNCHANGED <<fsVars, result, envVars, passes, passes_left, analysisVars,
                   insertVars, histVars>>

\* lines 86-88, 341-342: open() or the decoding raised; process() returns False
LoadFail ==
    /\ pc = "load"
    /\ faults
    /\ pc' = "done"
    /\ result' = "fail"
    /\ UNCHANGED <<fsVars, envVars, passes, passes_left, lines, loaded,
                   analysisVars, insertVars, histVars>>

\* ---------------------------------------------------- analyze_tool_usage
\* lines 92-94: a call starts; its locals are set, the object's fields stay.
\* The first call is process()'s (line 345); a later one is a caller's own.
BeginAnalyze ==
    /\ pc \in {"loaded", "analyzed"}
    /\ passes_left > 0
    /\ passes' = passes + 1
    /\ passes_left' = passes_left - 1
    /\ previous_tool' = NoTool
    /\ in_start_gcode' = TRUE
    /\ first_tool_after_start' = TRUE
    /\ line_num' = 0
    /\ pc' = "analyze"
    /\ UNCHANGED <<fsVars, result, envVars, lines, loaded,
                   tool_usage, tool_changes, current_tool, total_tools, e_mode,
                   e_pos, insertVars, histVars>>

\* lines 122-128: the count a tool-select line leaves for new_tool
CountChange(l, in_start) ==
    IF ~in_start /\ ~first_tool_after_start
       /\ previous_tool # NoTool /\ previous_tool # l.t
    THEN [tool_changes EXCEPT ![l.t] = @ + 1]
    ELSE tool_changes

\* Mutant of FirstAfter: a selection in the start region uses up the
\* exemption of the first selection.
FirstAfterAnywhere(l, in_start) == FALSE

\* lines 122-125: whether the first selection after the start is still to come
FirstAfter(l, in_start) ==
    IF ~in_start THEN FALSE ELSE first_tool_after_start

\* lines 144-152: is_extrusion of a move with E value l.e
IsExtrusion(l) ==
    IF e_mode = "ABS" THEN AbsExtrudes(l.e, e_pos) ELSE RelExtrudes(l.e)

\* Mutant of PosAfterMove: the position follows only a move that extrudes.
PosAfterMoveIfExtruded(l) ==
    IF e_mode = "ABS" /\ AbsExtrudes(l.e, e_pos) THEN l.e ELSE e_pos

\* Mutant of PosAfterMove: the position follows the value in either mode.
PosAfterMoveAnyMode(l) == l.e

\* lines 144-148: the position after a move with E value l.e
PosAfterMove(l) == IF e_mode = "ABS" THEN l.e ELSE e_pos

\* Mutant of IsToolSelect: the pattern is not anchored to the whole line, so
\* the T<n> parameter of a heater command matches too.
IsToolSelectAnywhere(l) == l.k \in {"T", "standby", "shutdown"}

\* lines 65, 118-119: self.re_t.match(line), T<digits> alone on the line
IsToolSelect(l) == l.k = "T"

\* Mutant of RecordUsage: the line is counted from 1.
RecordUsageFromOne(n) ==
    [tool_usage EXCEPT ![current_tool] = Append(@, n + 1)]

\* line 155: self.tool_usage[self.current_tool].append(line_num)
RecordUsage(n) == [tool_usage EXCEPT ![current_tool] = Append(@, n)]

\* lines 96-156: one iteration of the loop, on line number line_num
AnalyzeLine ==
    /\ pc = "analyze"
    /\ line_num < Len(lines)
    /\ LET l == lines[line_num + 1]
           in_start == IF IsLayerMarker(l) THEN FALSE ELSE in_start_gcode
       IN  /\ in_start_gcode' = in_start
           /\ line_num' = line_num + 1
           /\ CASE l.k = "M82" ->
                     /\ e_mode' = "ABS"
                     /\ UNCHANGED <<tool_usage, tool_changes, current_tool,
                                    total_tools, e_pos, previous_tool,
                                    first_tool_after_start>>
                [] l.k = "M83" ->
                     /\ e_mode' = "REL"
                     /\ UNCHANGED <<tool_usage, tool_changes, current_tool,
                                    total_tools, e_pos, previous_tool,
                                    first_tool_after_start>>
                [] l.k = "G92" ->
                     /\ e_pos' = l.e
                     /\ UNCHANGED <<tool_usage, tool_changes, current_tool,
                                    total_tools, e_mode, previous_tool,
                                    first_tool_after_start>>
                [] IsToolSelect(l) ->
                     /\ tool_changes' = CountChange(l, in_start)
                     /\ first_tool_after_start' = FirstAfter(l, in_start)
                     /\ current_tool' = l.t
                     /\ previous_tool' = l.t
                     /\ total_tools' = total_tools \cup {l.t}
                     /\ UNCHANGED <<tool_usage, e_mode, e_pos>>
                [] l.k = "G1E" ->
                     /\ e_pos' = PosAfterMove(l)
                     /\ IF IsExtrusion(l)
                        THEN /\ tool_usage' = RecordUsage(line_num)
                             /\ total_tools' = total_tools \cup {current_tool}
                        ELSE UNCHANGED <<tool_usage, total_tools>>
                     /\ UNCHANGED <<tool_changes, current_tool, e_mode,
                                    previous_tool, first_tool_after_start>>
                [] OTHER ->
                     UNCHANGED <<tool_usage, tool_changes, current_tool,
                                 total_tools, e_mode, e_pos, previous_tool,
                                 first_tool_after_start>>
    /\ UNCHANGED <<fsVars, pc, result, envVars, passes, passes_left, lines,
                   loaded, insertVars, histVars>>

\* lines 158-164: the loop is over, the summary is printed, the call returns
EndAnalyze ==
    /\ pc = "analyze"
    /\ line_num = Len(lines)
    /\ pc' = "analyzed"
    /\ usage1' = IF passes = 1 THEN tool_usage ELSE usage1
    /\ changes1' = IF passes = 1 THEN tool_changes ELSE changes1
    /\ UNCHANGED <<disk0, bak0, tried>>
    /\ UNCHANGED <<fsVars, result, envVars, passes, passes_left, lines,
                   loaded, analysisVars, insertVars>>

\* Mutant of NoTools: the return is missing, process() goes on to save.
NoToolsGoesOn ==
    /\ pc = "analyzed"
    /\ passes = 1
    /\ total_tools = {}
    /\ output_lines' = lines
    /\ pc' = "save"
    /\ UNCHANGED <<fsVars, result, envVars, passes, passes_left, lines, loaded,
                   analysisVars, tools_by_last_use, shutdown_inserted, applied,
                   histVars>>

\* lines 347-349: process() after its call of analyze_tool_usage
NoTools ==
    /\ pc = "analyzed"
    /\ passes = 1
    /\ total_tools = {}
    /\ pc' = "done"
    /\ result' = "fail"
    /\ UNCHANGED <<fsVars, envVars, passes, passes_left, lines, loaded,
                   analysisVars, insertVars, histVars>>

\* ------------------------------------------------------ insertion planner
\* lines 175-183: the index after the last line that contains
\* 'M104 S100 T<tool_num>', or None
find_last_standby_command(tool_num) ==
    LET hits == {idx \in 0..(Len(lines) - 1) : StandbyMatch(tool_num, lines[idx + 1])}
    IN  IF hits = {} THEN NoTool ELSE Max(hits) + 1

\* lines 185-194: last_usage_line is not used
find_safe_insertion_point(last_usage_line, tool) ==
    find_last_standby_command(tool)

Comment(t) == Ln("comment", t, 0, 0)
Blank == Ln("blank", NoTool, 0, 0)

\* lines 196-216
generate_shutdown_commands(tool_num) ==
    LET banner == IF add_comments
                  THEN <<Comment(NoTool), Comment(tool_num), Comment(NoTool),
                         Comment(NoTool)>>
                  ELSE <<>>
        heater == IF shutdown_heater THEN <<Ln("shutdown", tool_num, 0, 0)>> ELSE <<>>
        fan == IF shutdown_fan THEN <<Ln("fanoff", tool_num, 0, 0)>> ELSE <<>>
        trailer == IF add_comments THEN <<Comment(tool_num), Blank>> ELSE <<>>
        cmds == banner \o heater \o fan \o trailer
    IN  [i \in 1..Len(cmds) |-> Inserted(cmds[i])]

\* Mutant of ListInsert: s[i] = x, the line at i is overwritten.
ListInsertOverwrite(s, i, x) ==
    IF i >= Len(s) THEN Append(s, x) ELSE [s EXCEPT ![i + 1] = x]

\* list.insert(i, x), i >= 0: past the end it appends
ListInsert(s, i, x) ==
    IF i >= Len(s) THEN Append(s, x)
    ELSE SubSeq(s, 1, i) \o <<x>> \o SubSeq(s, i + 1, Len(s))

RECURSIVE InsertReversed(_, _, _)
\* lines 236-237 (and 300-301): for cmd in reversed(cmds): s.insert(at, cmd)
InsertReversed(s, at, cmds) ==
    IF cmds = <<>> THEN s
    ELSE InsertReversed(ListInsert(s, at, cmds[Len(cmds)]), at,
                        SubSeq(cmds, 1, Len(cmds) - 1))

\* lines 220-223
last_usage(tool) ==
    Max({tool_usage[tool][i] : i \in 1..Len(tool_usage[tool])})

UsedTools == {t \in total_tools : tool_usage[t] # <<>>}

RECURSIVE SortedByLastUse(_)
\* line 225: sorted(..., key=last use, reverse=True).  Two tools of one pass
\* never share a last-use line, so no tie is to be broken.
SortedByLastUse(S) ==
    IF S = {} THEN <<>>
    ELSE LET first == CHOOSE t \in S : \A u \in S : last_usage(u) <= last_usage(t)
         IN  <<first>> \o SortedByLastUse(S \ {first})

\* lines 351-352, 220-226: process() calls insert_shutdown_commands
BeginInsert ==
    /\ pc = "analyzed"
    /\ passes = 1
    /\ total_tools # {}
    /\ tools_by_last_use' = SortedByLastUse(UsedTools)
    /\ output_lines' = lines
    /\ pc' = "insert"
    /\ UNCHANGED <<fsVars, result, envVars, passes, passes_left, lines,
                   loaded, analysisVars, shutdown_inserted, applied, histVars>>

\* lines 228-240: one iteration of the loop
InsertStep ==
    /\ pc = "insert"
    /\ tools_by_last_use # <<>>
    /\ LET tool == Head(tools_by_last_use)
           insert_at == find_safe_insertion_point(last_usage(tool), tool)
       IN  /\ tools_by_last_use' = Tail(tools_by_last_use)
           /\ IF insert_at = NoTool
              THEN UNCHANGED <<output_lines, shutdown_inserted, applied>>
              ELSE /\ output_lines' = InsertReversed(output_lines, insert_at,
                                          generate_shutdown_commands(tool))
                   /\ shutdown_inserted' = shutdown_inserted \cup {tool}
                   /\ applied' = Append(applied, [tool |-> tool, at |-> insert_at])
    /\ UNCHANGED <<fsVars, pc, result, envVars, passes, passes_left, lines,
                   loaded, analysisVars, histVars>>

\* ---------------------------------------------------------------- report
Rep(k, t, e) == Inserted(Ln(k, t, e, 0))

RECURSIVE SumChanges(_)
SumChanges(S) ==
    IF S = {} THEN 0
    ELSE LET t == CHOOSE x \in S : TRUE
         IN  tool_changes[t] + SumChanges(S \ {t})

RECURSIVE ToolReport(_)
\* lines 271-280: the tools in ascending order, those that extruded
ToolReport(S) ==
    IF S = {} THEN <<>>
    ELSE LET t == CHOOSE x \in S : \A y \in S : x <= y
         IN  <<Rep("rep_tool", t, 0), Rep("rep_tool_changes", t, tool_changes[t]),
               Rep("rep_status", t, IF t \in shutdown_inserted THEN 1 ELSE 0),
               Rep("comment", NoTool, 0)>> \o ToolReport(S \ {t})

\* lines 244-288
generate_report ==
    LET total_changes == SumChanges(ToolIds)
    IN  <<Rep("comment", NoTool, 0), Rep("comment", NoTool, 0),
          Rep("comment", NoTool, 0), Rep("rep_timestamp", NoTool, 0),
          Rep("comment", NoTool, 0),
          Rep("rep_mode", NoTool, IF dry_run THEN 1 ELSE 0),
          Rep("comment", NoTool, 0), Rep("comment", NoTool, 0),
          Rep("comment", NoTool, 0),
          Rep("rep_tools", NoTool, Cardinality(total_tools)),
          Rep("rep_changes", NoTool, total_changes),
          Rep("rep_shutdowns", NoTool, Cardinality(shutdown_inserted))>>
        \o (IF total_changes > 0
            THEN <<Rep("rep_time", NoTool, total_changes * 20)>> ELSE <<>>)
        \o <<Rep("comment", NoTool, 0), Rep("comment", NoTool, 0),
             Rep("comment", NoTool, 0)>>
        \o ToolReport(UsedTools)
        \o <<Rep("comment", NoTool, 0), Rep("comment", NoTool, 0),
             Rep("comment", NoTool, 0), Rep("comment", NoTool, 0),
             Rep("blank", NoTool, 0)>>

\* lines 294-298: the first line with ';LAYER:0' or 'thumbnail end'
ReportIndex(s) ==
    LET hits == {idx \in 0..(Len(s) - 1) :
                    s[idx + 1].lay = 2 \/ s[idx + 1].k = "thumb"}
    IN  IF hits = {} THEN 0
        ELSE LET idx == CHOOSE i \in hits : \A j \in hits : i <= j
             IN  IF s[idx + 1].lay = 2 THEN idx ELSE idx + 1

\* lines 290-303
insert_report(s) == InsertReversed(s, ReportIndex(s), generate_report)

\* line 242, lines 354-356: insert_shutdown_commands returns, the report
\* goes in
InsertReport ==
    /\ pc = "insert"
    /\ tools_by_last_use = <<>>
    /\ output_lines' = IF generate_report_flag THEN insert_report(output_lines)
                       ELSE output_lines
    /\ pc' = "save"
    /\ UNCHANGED <<fsVars, result, envVars, passes, passes_left, lines,
                   loaded, analysisVars, tools_by_last_use, shutdown_inserted,
                   applied, histVars>>

\* ----------------------------------------------------------- save_output
\* Mutant of SaveDryRun: the test of dry_run is missing, the target is
\* written.
SaveDryRunWrites ==
    /\ pc = "save"
    /\ dry_run
    /\ disk' = TextOf(output_lines)
    /\ wrote' = wrote \cup {"file"}
    /\ pc' = "done"
    /\ result' = "ok"
    /\ UNCHANGED <<bak, envVars, passes, passes_left, lines, loaded,
                   analysisVars, insertVars, histVars>>

\* lines 307-315, 359-371
SaveDryRun ==
    /\ pc = "save"
    /\ dry_run
    /\ pc' = "done"
    /\ result' = "ok"
    /\ UNCHANGED <<fsVars, envVars, passes, passes_left, lines, loaded,
                   analysisVars, insertVars, histVars>>

\* What a file holds after open(path, 'w') and writelines(content): all of
\* it ("ok"); what it held, when open() raised ("open"); nothing or all
\* but the last line, when the write raised ("cut0", "cut1").
Written(old, content, how) ==
    CASE how = "ok" -> TextOf(content)
      [] how = "open" -> old
      [] how = "cut0" -> <<>>
      [] OTHER -> TextOf(SubSeq(content, 1, Len(content) - 1))

Outcomes == IF faults THEN {"ok", "open", "cut0", "cut1"} ELSE {"ok"}

\* Mutant of BackupContent: the backup gets the working copy.
BackupContentMutated == output_lines

\* line 321: f.writelines(self.lines)
BackupContent == lines

\* Mutant of SaveResult: a backup that failed makes the run fail.
SaveResultBackupFatal(b, w) == IF b /\ w = "ok" THEN "ok" ELSE "fail"

\* lines 326-333: what save_output returns; b is whether the backup was
\* written in full, w how the write of the target went
SaveResult(b, w) == IF w = "ok" THEN "ok" ELSE "fail"

\* The backup of this run was written in full.
BackupDone == "bak" \in wrote /\ bak = [exists |-> TRUE, content |-> TextOf(BackupContent)]

\* lines 317-324: the backup is written, or the failure is printed
SaveBackup ==
    /\ pc = "save"
    /\ ~dry_run
    /\ IF create_backup
       THEN \E b \in Outcomes :
               /\ bak' = IF b = "open" THEN bak
                         ELSE [exists |-> TRUE,
                               content |-> Written(bak.content, BackupContent, b)]
               /\ wrote' = IF b = "open" THEN wrote ELSE wrote \cup {"bak"}
               /\ tried' = Append(tried, "bak")
       ELSE UNCHANGED <<bak, wrote, tried>>
    /\ pc' = "write"
    /\ UNCHANGED <<disk, result, envVars, passes, passes_left, lines, loaded,
                   analysisVars, insertVars, usage1, changes1, disk0, bak0>>

\* lines 326-333, 359-371: the target is written; process() returns
SaveWrite ==
    /\ pc = "write"
    /\ \E w \in Outcomes :
          /\ disk' = Written(disk, output_lines, w)
          /\ wrote' = IF w = "open" THEN wrote ELSE wrote \cup {"file"}
          /\ result' = SaveResult(BackupDone, w)
    /\ tried' = Append(tried, "file")
    /\ pc' = "done"
    /\ UNCHANGED <<bak, envVars, passes, passes_left, lines, loaded,
                   analysisVars, insertVars, usage1, changes1, disk0, bak0>>

\* main() again, on the file the last run wrote: a new processor
Rerun ==
    /\ pc = "done"
    /\ result = "ok"
    /\ runs_left > 0
    /\ run' = run + 1
    /\ runs_left' = runs_left - 1
    /\ lines' = <<>>
    /\ tool_usage' = [t \in ToolIds |-> <<>>]
    /\ tool_changes' = [t \in ToolIds |-> 0]
    /\ current_tool' = 0
    /\ total_tools' = {}
    /\ shutdown_inserted' = {}
    /\ e_mode' = "ABS"
    /\ e_pos' = 0
    /\ previous_tool' = NoTool
    /\ in_start_gcode' = TRUE
    /\ first_tool_after_start' = TRUE
    /\ line_num' = 0
    /\ tools_by_last_use' = <<>>
    /\ output_lines' = <<>>
    /\ applied' = <<>>
    /\ loaded' = <<>>
    /\ passes' = 0
    /\ passes_left' = 1
    /\ usage1' = [t \in ToolIds |-> <<>>]
    /\ changes1' = [t \in ToolIds |-> 0]
    /\ disk0' = disk
    /\ bak0' = bak
    /\ tried' = <<>>
    /\ wrote' = {}
    /\ result' = "none"
    /\ pc' = "load"
    /\ UNCHANGED <<disk, bak, dry_run, faults>>

Next ==
    \/ LoadOk
    \/ LoadFail
    \/ BeginAnalyze
    \/ AnalyzeLine
    \/ EndAnalyze
    \/ NoTools
    \/ BeginInsert
    \/ InsertStep
    \/ InsertReport
    \/ SaveDryRun
    \/ SaveBackup
    \/ SaveWrite
    \/ Rerun

Spec == Init /\ [][Next]_vars

\* ================================================================ claims
\* insert_shutdown_commands has run its loop to the end: output_lines is
\* the sequence it returns.
Returned == pc = "insert" /\ tools_by_last_use = <<>>

\* The lines of s that were not put in by this processor.
NonInserted(s) == SelectSeq(s, LAMBDA l : ~l.ins)

\* Where original line number n stands in s (a position, from 1).
OrigPos(s, n) ==
    CHOOSE p \in 1..Len(s) :
        ~s[p].ins /\ Cardinality({q \in 1..p : ~s[q].ins}) = n + 1

\* Where the inserted line M104 S0 T<t> stands in s.
ShutdownPos(s, t) ==
    {p \in 1..Len(s) : s[p].ins /\ s[p].k = "shutdown" /\ s[p].t = t}

\* The line numbers of the standby lines addressed to tool t.
OwnStandby(t) ==
    {n \in 0..(Len(lines) - 1) : lines[n + 1].k = "standby" /\ lines[n + 1].t = t}

\* The line numbers of the lines that contain the text M104 S100 T<t>.
ContainsStandby(t) ==
    {n \in 0..(Len(lines) - 1) : StandbyMatch(t, lines[n + 1])}

\* C1: in the sequence insert_shutdown_commands returns, the M104 S0 T<n>
\* line inserted for a tool of the shutdown set lies after the line of that
\* tool's last recorded extrusion.
C1_ShutdownAfterLastUse ==
    Returned =>
        \A t \in shutdown_inserted :
            \A p \in ShutdownPos(output_lines, t) :
                p > OrigPos(output_lines, last_usage(t))

\* C2: in the sequence insert_shutdown_commands returns, the block inserted
\* for a tool starts right after the last line containing M104 S100 T<n>.
C2_BlockFollowsStandby ==
    Returned =>
        \A t \in shutdown_inserted :
            LET a == OrigPos(output_lines, Max(ContainsStandby(t)))
                blk == generate_shutdown_commands(t)
            IN  /\ a + Len(blk) <= Len(output_lines)
                /\ \A j \in 1..Len(blk) : output_lines[a + j] = blk[j]

\* C3: each insertion is made at an index strictly smaller than the index
\* of every insertion made before it.
C3_DescendingTargets ==
    \A i, j \in 1..Len(applied) : i < j => applied[j].at < applied[i].at

\* C4: after a second run on the output of a first run, the file holds
\* exactly one M104 S0 T<n> line for each tool the run shut down.
C4_NoDuplicateShutdown ==
    (run = 2 /\ pc = "done" /\ result = "ok") =>
        \A t \in shutdown_inserted :
            Cardinality({p \in 1..Len(disk) :
                            disk[p].k = "shutdown" /\ disk[p].t = t}) = 1

\* C5: while and after insert_shutdown_commands inserts, the working copy
\* without its inserted lines is the original sequence, and self.lines is
\* still what load_gcode read.
C5_InsertionPreservesLines ==
    pc = "insert" => (NonInserted(output_lines) = lines /\ lines = loaded)

\* Two blocks have been inserted and the loop is over.
C5_Witness ==
    /\ Returned
    /\ Len(applied) = 2
    /\ Len(output_lines) > Len(lines)

\* C6: a tool that extruded and has a standby line of its own is given the
\* index after the last of its own standby lines as its insertion target.
C6_TargetAfterOwnLastStandby ==
    /\ \A i \in 1..Len(applied) :
          OwnStandby(applied[i].tool) # {} =>
              applied[i].at = Max(OwnStandby(applied[i].tool)) + 1
    /\ Returned =>
          \A t \in UsedTools :
              OwnStandby(t) # {} => \E i \in 1..Len(applied) : applied[i].tool = t

\* C7: a tool with no standby line of its own gets no inserted line and is
\* not in shutdown_inserted.
C7_NoStandbyNoShutdown ==
    pc \in {"insert", "save", "done"} =>
        \A t \in ToolIds :
            OwnStandby(t) = {} =>
                /\ t \notin shutdown_inserted
                /\ \A p \in 1..Len(output_lines) :
                       ~(output_lines[p].ins /\ output_lines[p].k = "shutdown"
                         /\ output_lines[p].t = t)

\* C8: a second call of analyze_tool_usage on the same lines leaves the
\* usage map and the change counts the first call produced.
C8_AnalyzerIdempotent ==
    (pc = "analyzed" /\ passes = 2) =>
        (tool_usage = usage1 /\ tool_changes = changes1)

\* The tool-select lines among the first n lines, as line numbers.
Selects(n) == {i \in 0..(n - 1) : lines[i + 1].k = "T"}
\* Line number i is past the start region: a layer marker stands on it or
\* on an earlier line.
PastStart(i) == \E j \in 0..i : lines[j + 1].lay > 0
\* The tool active just before line number i.
ActiveBefore(i) ==
    IF Selects(i) = {} THEN 0 ELSE lines[Max(Selects(i)) + 1].t
\* The selections of tool t, among the first n lines, that count as a change.
CountedSelects(t, n) ==
    {i \in Selects(n) :
        /\ lines[i + 1].t = t
        /\ PastStart(i)
        /\ \E k \in Selects(i) : PastStart(k)
        /\ ActiveBefore(i) # t}

\* C9: at every point of process()'s analysis pass, tool_changes[t] is the
\* number of scanned Tool-Select(t) lines past the start region, not the
\* first such, that select a tool other than the active one; a selection in
\* the start region leaves the first-selection exemption; current_tool is
\* the tool of the last Tool-Select scanned.
C9_ToolChangeCount ==
    (pc \in {"analyze", "analyzed"} /\ passes = 1) =>
        /\ \A t \in ToolIds :
              tool_changes[t] = Cardinality(CountedSelects(t, line_num))
        /\ first_tool_after_start = ~(\E k \in Selects(line_num) : PastStart(k))
        /\ current_tool = ActiveBefore(line_num)

\* A pass has counted a change and has met a selection in the start region.
C9_Witness ==
    /\ pc = "analyzed"
    /\ passes = 1
    /\ \E t \in ToolIds : tool_changes[t] = 1
    /\ \E k \in Selects(line_num) : ~PastStart(k)

\* C10: a move line with E value v is appended to the current tool's usage
\* list exactly when the mode is ABS and v exceeds e_pos by more than the
\* tolerance, or the mode is REL and v exceeds the tolerance; otherwise no
\* usage list changes.
C10_ExtrusionRecorded ==
    [][(pc = "analyze" /\ line_num < Len(lines)
        /\ lines[line_num + 1].k = "G1E") =>
          LET v == lines[line_num + 1].e
          IN  IF \/ e_mode = "ABS" /\ v > e_pos + Tol
                 \/ e_mode = "REL" /\ v > Tol
              THEN tool_usage' = [tool_usage EXCEPT
                                     ![current_tool] = Append(@, line_num)]
              ELSE tool_usage' = tool_usage]_vars

\* A pass in relative mode has met a move it recorded and a move it did
\* not record.
C10_Witness ==
    /\ pc = "analyzed"
    /\ passes = 1
    /\ e_mode = "REL"
    /\ \E a, b \in 0..(Len(lines) - 1) :
          /\ lines[a + 1].k = "G1E"
          /\ lines[b + 1].k = "G1E"
          /\ \E t \in ToolIds : \E i \in 1..Len(tool_usage[t]) : tool_usage[t][i] = a
          /\ \A t \in ToolIds : \A i \in 1..Len(tool_usage[t]) : tool_usage[t][i] # b

\* C11: in ABS mode the position after a move line with E value v is v,
\* counted as extrusion or not; an origin-reset line sets the position to
\* its value and leaves every usage list as it was.
C11_PositionFollowsMoves ==
    [][(pc = "analyze" /\ line_num < Len(lines)) =>
          LET l == lines[line_num + 1]
          IN  /\ (l.k = "G1E" /\ e_mode = "ABS") => e_pos' = l.e
              /\ l.k = "G92" => (e_pos' = l.e /\ tool_usage' = tool_usage)]_vars

\* An absolute move to a lower value has just been read after a move that
\* extruded: it is not recorded and the position is its value.
C11_Witness ==
    /\ pc = "analyze"
    /\ passes = 1
    /\ e_mode = "ABS"
    /\ line_num >= 2
    /\ lines[line_num].k = "G1E"
    /\ lines[line_num - 1].k = "G1E"
    /\ lines[line_num].e < lines[line_num - 1].e
    /\ e_pos = lines[line_num].e
    /\ tool_usage[current_tool] = <<line_num - 2>>

\* C12: a line that is not a whole-line tool-select token, a heater command
\* with a T parameter among them, leaves the current tool and every tool
\* change count as they were.
C12_OnlySelectChangesTool ==
    [][(pc = "analyze" /\ line_num < Len(lines)
        /\ lines[line_num + 1].k # "T") =>
          (current_tool' = current_tool /\ tool_changes' = tool_changes)]_vars

\* M104 S100 T1 has just been read past the start region, after T0 was
\* selected there: tool 0 is still the current tool and nothing is counted.
C12_Witness ==
    /\ pc = "analyze"
    /\ line_num = 3
    /\ lines = <<LayerLine, TSel(0), Standby(1)>>
    /\ current_tool = 0
    /\ tool_changes[1] = 0

\* C13: at the end of a run that is not a dry run, either the backup and
\* the rewritten target were both written in full, or the target holds
\* what it held when the run started.
C13_NoPartialWrites ==
    (pc = "done" /\ ~dry_run) =>
        \/ /\ bak = [exists |-> TRUE, content |-> disk0]
           /\ disk = TextOf(output_lines)
        \/ disk = disk0

\* C14: a dry run opens no file for writing, so the target and the backup
\* stay as they were; once the file is loaded and a tool is found it goes
\* through insertion and the report and returns success.
C14_DryRunWritesNothing ==
    dry_run =>
        /\ disk = disk0
        /\ bak = bak0
        /\ wrote = {}
        /\ tried = <<>>
        /\ (pc = "done" /\ passes = 1 /\ total_tools # {}) =>
              /\ result = "ok"
              /\ tools_by_last_use = <<>>
              /\ NonInserted(output_lines) = lines
              /\ \E p \in 1..Len(output_lines) :
                    output_lines[p].k = "rep_mode" /\ output_lines[p].e = 1

\* A dry run has ended after it inserted a shutdown block.
C14_Witness ==
    /\ dry_run
    /\ pc = "done"
    /\ result = "ok"
    /\ shutdown_inserted # {}
    /\ Len(output_lines) > Len(lines)

\* C15: process() returns success exactly when the file was loaded, a tool
\* was found and the save step (the preview, in a dry run) completed; the
\* backup plays no part.
C15_SuccessIff ==
    pc = "done" =>
        /\ result \in {"ok", "fail"}
        /\ result = "ok" <=>
              /\ passes >= 1
              /\ total_tools # {}
              /\ \/ dry_run
                 \/ "file" \in wrote /\ disk = TextOf(output_lines)

\* The backup could not be opened, the target was written: success.
C15_Witness ==
    /\ pc = "done"
    /\ ~dry_run
    /\ result = "ok"
    /\ ~bak.exists

\* C16: a failed load ends the run before any line is analyzed, and a run
\* that finds no tool ends before insertion; either way the run fails, no
\* file is opened for writing and nothing is inserted.
C16_AbortWritesNothing ==
    /\ passes = 0 =>
          (line_num = 0 /\ total_tools = {} /\ \A t \in ToolIds : tool_usage[t] = <<>>)
    /\ (pc = "done" /\ (passes = 0 \/ total_tools = {})) =>
          /\ result = "fail"
          /\ disk = disk0
          /\ bak = bak0
          /\ tried = <<>>
          /\ wrote = {}
          /\ output_lines = <<>>
          /\ shutdown_inserted = {}
          /\ applied = <<>>

\* A run that is not a dry run has read a file with lines, found no tool
\* and ended.
C16_Witness ==
    /\ pc = "done"
    /\ ~dry_run
    /\ passes = 1
    /\ total_tools = {}
    /\ Len(lines) > 0
    /\ result = "fail"

\* C17: when the target is about to be written the backup has been tried
\* and the target is still as it was; what the backup received is a prefix
\* of the lines as loaded, all of them if its write went through; the
\* target is tried whatever became of the backup.
C17_BackupBeforeOverwrite ==
    /\ pc = "write" => (tried = <<"bak">> /\ disk = disk0)
    /\ "bak" \in wrote =>
          (bak.exists /\ IsPrefix(bak.content, loaded)
           /\ (Len(bak.content) = Len(loaded) \/ faults))
    /\ (pc = "done" /\ ~dry_run /\ passes = 1 /\ total_tools # {}) =>
          tried = <<"bak", "file">>

\* The write of the backup broke off, the target was then written in full.
C17_Witness ==
    /\ pc = "done"
    /\ tried = <<"bak", "file">>
    /\ "bak" \in wrote
    /\ bak.content # loaded
    /\ disk = TextOf(output_lines)

\* C18: the line before a tool's insertion index is a standby line
\* addressed to that tool, and no two tools get the same insertion index.
C18_AnchorsOwnStandby ==
    /\ \A i \in 1..Len(applied) :
          /\ lines[applied[i].at].k = "standby"
          /\ lines[applied[i].at].t = applied[i].tool
    /\ \A i, j \in 1..Len(applied) :
          i # j => applied[i].at # applied[j].at

\* The line numbers in tool t's usage list.
UsageSet(t) == {tool_usage[t][i] : i \in 1..Len(tool_usage[t])}

\* C19: throughout process()'s analysis pass every usage list is strictly
\* increasing, no line number is in two lists, every recorded number is that
\* of a move line already read, and a tool with usage is a known tool; so
\* no two tools share their last-use line.
C19_UsageListsWellFormed ==
    (pc \in {"analyze", "analyzed"} /\ passes = 1) =>
        /\ \A t \in ToolIds :
              /\ \A i, j \in 1..Len(tool_usage[t]) :
                    i < j => tool_usage[t][i] < tool_usage[t][j]
              /\ \A n \in UsageSet(t) :
                    n >= 0 /\ n < line_num /\ lines[n + 1].k \in {"G1", "G1E"}
              /\ tool_usage[t] # <<>> => t \in total_tools
        /\ \A t, u \in ToolIds :
              t # u =>
                  /\ UsageSet(t) \cap UsageSet(u) = {}
                  /\ (tool_usage[t] # <<>> /\ tool_usage[u] # <<>>) =>
                        Max(UsageSet(t)) # Max(UsageSet(u))

\* A pass has ended with two tools that extruded, one of them twice.
C19_Witness ==
    /\ pc = "analyzed"
    /\ passes = 1
    /\ \E t, u \in ToolIds :
          t # u /\ Len(tool_usage[t]) >= 2 /\ Len(tool_usage[u]) >= 1

\* C20: in REL mode a move line leaves the position as it is; a mode-set
\* line changes the mode and nothing else the analyzer tracks, so a move
\* after a switch back to ABS meets the position the last ABS move or
\* origin reset left.
C20_RelativeKeepsPosition ==
    [][(pc = "analyze" /\ line_num < Len(lines)) =>
          LET l == lines[line_num + 1]
          IN  /\ (l.k = "G1E" /\ e_mode = "REL") => e_pos' = e_pos
              /\ l.k \in {"M82", "M83"} =>
                    /\ e_mode' = IF l.k = "M82" THEN "ABS" ELSE "REL"
                    /\ e_pos' = e_pos
                    /\ tool_usage' = tool_usage
                    /\ tool_changes' = tool_changes
                    /\ current_tool' = current_tool
                    /\ total_tools' = total_tools]_vars

\* After M83, a relative move that extruded and M82, the position is still
\* the initial 0.
C20_Witness ==
    /\ pc = "analyze"
    /\ passes = 1
    /\ line_num = 3
    /\ lines = <<M83, MoveE(3), M82>>
    /\ e_mode = "ABS"
    /\ e_pos = 0
    /\ tool_usage[0] = <<1>>
====
